---- MODULE Spec2Model ----
(***************************************************************************)
(* A model of the attendance record engine of app.py: the roster files,    *)
(* the per-session attendance files, and the handlers that read and write  *)
(* them.  Text is a sequence of one-character strings, so that str(),      *)
(* read_csv's type inference and endswith are computed, not assumed.       *)
(***************************************************************************)
EXTENDS Integers, Sequences, FiniteSets, TLC

VARIABLES
    students,    \* the students_*.csv files of DATA_FOLDER, in os.listdir order
    attendance,  \* ATTENDANCE_FOLDER: file name -> the attendance file stored there
    students_csv, \* DATA_FOLDER/students.csv, the file add_student and delete_student write
    modified,    \* the names of the attendance files, in the order of their last write
    resp,        \* the last handler call: its arguments and what it returned
    pc,          \* per worker: where its request stands (SpecConc)
    req          \* per worker: the locals of the request it is running (SpecConc)

vars == <<students, attendance, students_csv, modified, resp, pc, req>>

-----------------------------------------------------------------------------
(* Bounds of the model *)

\* most rows, over all attendance files together, that the model lets the store hold
MaxEvents == 2

\* most requests the concurrent workers start in one run
MaxCalls == 3

\* the most uploaded roster files, and the most rows of students.csv
MaxRoster == 2

-----------------------------------------------------------------------------
(* Text *)

Digits == {"0", "1", "2", "3", "4", "5", "6", "7", "8", "9"}

\* str.isdigit(): non-empty and every character a decimal digit
isdigit(s) == Len(s) > 0 /\ \A i \in 1..Len(s) : s[i] \in Digits

\* s[-n:]
LastN(s, n) == IF Len(s) <= n THEN s ELSE SubSeq(s, Len(s) - n + 1, Len(s))

\* s.endswith(t)
endswith(s, t) == Len(t) <= Len(s) /\ LastN(s, Len(t)) = t

\* str(int(s)) for a digit string s: the leading zeros are gone
RECURSIVE StripZeros(_)
StripZeros(s) == IF Len(s) > 1 /\ s[1] = "0" THEN StripZeros(Tail(s)) ELSE s

Range(f) == {f[i] : i \in DOMAIN f}

RECURSIVE Concat(_)
Concat(tables) == IF tables = << >> THEN << >> ELSE Head(tables) \o Concat(Tail(tables))

-----------------------------------------------------------------------------
(* pandas: reading and writing a table *)

CSV_COLUMNS == <<"name", "phone_number", "photo">>

ATTENDANCE_COLUMNS == <<"name", "phone_number", "status", "timestamp">>

\* pd.read_csv on the rows of a file (no dtype is given, so each column's
\* type is inferred; the names, statuses and timestamps here are never
\* numbers and come back as written).  The phone_number column is inferred as
\* int64 when every cell is a digit string, and then each cell is the number
\* (kept here by its str(), which is also what to_csv writes); otherwise the
\* column is object and each cell is the text as written.
read_csv(rows) ==
    LET numeric == \A i \in DOMAIN rows : isdigit(rows[i].phone_number)
    IN  [i \in DOMAIN rows |->
            [rows[i] EXCEPT !.phone_number = IF numeric THEN StripZeros(@) ELSE @]]

\* pd.DataFrame(columns=["name", "phone_number", "status", "timestamp"])
EmptyTable == [columns |-> ATTENDANCE_COLUMNS, rows |-> << >>]

NoFile == [exists |-> FALSE, columns |-> << >>, rows |-> << >>]

\* DataFrame.to_csv(path, index=False): the header and one line per row
to_csv(table) == [exists |-> TRUE, columns |-> table.columns, rows |-> table.rows]

-----------------------------------------------------------------------------
(* The values requests and files are drawn from *)

\* phone_number cells of an uploaded roster file: a plain number, a number
\* written with a leading zero, and a cell that is not a number
PhoneList == << <<"5", "1", "2", "3", "4">>,
               <<"0", "1", "2", "3", "4">>,
               <<"x", "1", "2", "3", "4">> >>

PhoneTexts == Range(PhoneList)

\* phone_number values of an /attendance request body
RequestPhones == PhoneTexts \cup { <<"1", "2", "3", "4">>, <<"7", "7", "7", "7">> }

\* phone_digits values of a /search form
SearchDigits == { <<"1", "2", "3", "4">>, <<"5", "1", "2", "3", "4">>,
                  <<"9", "1", "2", "3", "4">>,
                  <<"5", "1", "2", "3">>, <<"2", "3", "4">>, <<"x", "2", "3", "4">>,
                  << >> }

\* status values of an /attendance request body: the handler takes what it is sent
Statuses == {"entry", "exit", "reject", "late"}

\* datetime.now().strftime("%Y-%m-%d %H:%M:%S")
Timestamps == {"2024-01-01 09:00:00", "2024-01-01 09:00:01"}

CourseIds == { <<"1">> }

SessionIds == { <<"1">> }

\* the sessions of the attendance folder the history is read from: one more
\* than the history scans
HistorySessionIds == { <<"1">>, <<"2">>, <<"3">>, <<"4">>, <<"5">>, <<"6">> }

StudentRow(name, phone) ==
    [name |-> name, phone_number |-> phone, photo |-> <<name, ".jpg">>]

RosterFile(rows) == [columns |-> CSV_COLUMNS, rows |-> rows]

\* what DATA_FOLDER can hold: no roster file, one file of one or two rows, two
\* files of one row each, or a file that lacks a required column
Rosters ==
    { << >> }
    \cup { <<RosterFile(<<StudentRow("Alice", p)>>)>> : p \in PhoneTexts }
    \cup { <<RosterFile(<<StudentRow("Alice", p), StudentRow("Bob", q)>>)>> :
              p \in PhoneTexts, q \in PhoneTexts }
    \cup { <<RosterFile(<<StudentRow("Alice", p)>>), RosterFile(<<StudentRow("Bob", q)>>)>> :
              p \in PhoneTexts, q \in PhoneTexts }
    \cup { <<[columns |-> <<"name", "phone_number">>,
              rows |-> <<StudentRow("Alice", p)>>]>> : p \in PhoneTexts }

-----------------------------------------------------------------------------
(* The helpers of app.py *)

\* f"attendance_course_{course_id}_session_{session_id}.csv"
AttendanceFile(course_id, session_id) ==
    <<"attendance_course_">> \o course_id \o <<"_session_">> \o session_id \o <<".csv">>

FileNames == {AttendanceFile(c, s) : c \in CourseIds, s \in SessionIds \cup HistorySessionIds}

\* the rows of every roster file that has the required columns, file after file
load_csv_files(files) ==
    LET valid(f) == \A col \in Range(CSV_COLUMNS) : col \in Range(f.columns)
        frames == [i \in DOMAIN files |->
                      IF valid(files[i]) THEN read_csv(files[i].rows) ELSE << >>]
    IN  Concat(frames)

\* find_student with str.contains in place of str.endswith
find_student_contains(files, phone_number, partial) ==
    LET df == load_csv_files(files)
        phone_str == LastN(phone_number, 4)
        contains(s) == \E k \in 1..Len(s) : endswith(SubSeq(s, 1, k), phone_str)
        hits == IF partial
                THEN {i \in DOMAIN df : contains(df[i].phone_number)}
                ELSE {i \in DOMAIN df : df[i].phone_number = phone_number}
    IN  IF hits = {} THEN << >>
        ELSE <<df[CHOOSE i \in hits : \A j \in hits : i <= j]>>

\* the first roster row whose phone matches, as a sequence of at most one row
find_student(files, phone_number, partial) ==
    LET df == load_csv_files(files)
        phone_str == LastN(phone_number, 4)
        hits == IF partial
                THEN {i \in DOMAIN df : endswith(df[i].phone_number, phone_str)}
                ELSE {i \in DOMAIN df : df[i].phone_number = phone_number}
    IN  IF hits = {} THEN << >>
        ELSE <<df[CHOOSE i \in hits : \A j \in hits : i <= j]>>

\* load_attendance with the empty table built without its columns
load_attendance_nocolumns(store, course_id, session_id) ==
    LET file == store[AttendanceFile(course_id, session_id)]
    IN  IF file.exists
        THEN [columns |-> file.columns, rows |-> read_csv(file.rows)]
        ELSE [columns |-> << >>, rows |-> << >>]

load_attendance(store, course_id, session_id) ==
    LET file == store[AttendanceFile(course_id, session_id)]
    IN  IF file.exists
        THEN [columns |-> file.columns, rows |-> read_csv(file.rows)]
        ELSE EmptyTable

\* write_attendance adding its row to the file as it is at the write
write_attendance_append(store, table, student, status, course_id, session_id, now) ==
    LET new_entry == [name |-> student.name, phone_number |-> student.phone_number,
                      status |-> status, timestamp |-> now]
        file == store[AttendanceFile(course_id, session_id)]
        updated == [columns |-> table.columns, rows |-> Append(file.rows, new_entry)]
    IN  IF student.phone_number \in {table.rows[i].phone_number : i \in DOMAIN table.rows}
        THEN [success |-> FALSE, message |-> "Duplicate attendance entry for this student",
              store |-> store]
        ELSE [success |-> TRUE, message |-> "Attendance recorded successfully",
              store |-> [store EXCEPT ![AttendanceFile(course_id, session_id)] = to_csv(updated)]]

\* load_attendance when pd.read_csv may raise on a file that exists: the
\* except branch answers with the empty table
load_attendance_or_error(store, course_id, session_id, read_error) ==
    IF store[AttendanceFile(course_id, session_id)].exists /\ read_error
    THEN EmptyTable
    ELSE load_attendance(store, course_id, session_id)

\* save_attendance from the table it loaded: the duplicate check, the new
\* row and the rewrite of the whole file
write_attendance(store, table, student, status, course_id, session_id, now) ==
    LET new_entry == [name |-> student.name, phone_number |-> student.phone_number,
                      status |-> status, timestamp |-> now]
        updated == [columns |-> table.columns, rows |-> Append(table.rows, new_entry)]
    IN  IF student.phone_number \in {table.rows[i].phone_number : i \in DOMAIN table.rows}
        THEN [success |-> FALSE, message |-> "Duplicate attendance entry for this student",
              store |-> store]
        ELSE [success |-> TRUE, message |-> "Attendance recorded successfully",
              store |-> [store EXCEPT ![AttendanceFile(course_id, session_id)] = to_csv(updated)]]

save_attendance(store, student, status, course_id, session_id, now) ==
    write_attendance(store, load_attendance(store, course_id, session_id),
                     student, status, course_id, session_id, now)

\* reset_attendance without the os.path.exists test: removing a file that is
\* not there raises, and the handler answers with the error
reset_attendance_unguarded(store, course_id, session_id) ==
    LET name == AttendanceFile(course_id, session_id)
    IN  IF store[name].exists
        THEN [success |-> TRUE, message |-> "redirect",
              store |-> [store EXCEPT ![name] = NoFile]]
        ELSE [success |-> FALSE, message |-> "No such file or directory", store |-> store]

\* reset_attendance after its os.path.exists test returned found: os.remove
\* when found, which raises if the file is gone by then, and the redirect
remove_attendance(store, found, course_id, session_id) ==
    LET name == AttendanceFile(course_id, session_id)
    IN  IF found
        THEN IF store[name].exists
             THEN [success |-> TRUE, message |-> "redirect",
                   store |-> [store EXCEPT ![name] = NoFile]]
             ELSE [success |-> FALSE, message |-> "No such file or directory",
                   store |-> store]
        ELSE [success |-> TRUE, message |-> "redirect", store |-> store]

\* reset_attendance, test and removal together
reset_attendance(store, course_id, session_id) ==
    remove_attendance(store, store[AttendanceFile(course_id, session_id)].exists,
                      course_id, session_id)

\* the order of last write after a step from the files old to the files new:
\* a file that was written moves to the end, a file that was removed leaves
Modified(order, old, new) ==
    LET kept == SelectSeq(order, LAMBDA n : new[n] = old[n])
        written == {n \in DOMAIN new : new[n] # old[n] /\ new[n].exists}
    IN  IF written = {} THEN kept ELSE Append(kept, CHOOSE n \in written : TRUE)

\* the number of rows the store holds, which MaxEvents bounds
RECURSIVE SumRows(_, _)
SumRows(store, names) ==
    IF names = {} THEN 0
    ELSE LET n == CHOOSE x \in names : TRUE
         IN  Len(store[n].rows) + SumRows(store, names \ {n})

TotalRows(store) == SumRows(store, DOMAIN store)

-----------------------------------------------------------------------------
(* The views and exports, as functions of the files *)

WithStatus(table, status) ==
    SelectSeq(table.rows, LAMBDA r : r.status = status)

\* absent_students with the phones of every row of the session, whatever its
\* status, taken out of the roster
absent_students_any(store, files, course_id, session_id) ==
    LET table == load_attendance(store, course_id, session_id)
        all_students == load_csv_files(files)
        recorded == {r.phone_number : r \in Range(table.rows)}
    IN  SelectSeq(all_students, LAMBDA r : r.phone_number \notin recorded)

\* absent = the roster rows whose phone is not among the phones of the
\* session's "entry" rows (present_phones)
absent_students(store, files, course_id, session_id) ==
    LET table == load_attendance(store, course_id, session_id)
        all_students == load_csv_files(files)
        present_phones == {r.phone_number : r \in Range(WithStatus(table, "entry"))}
    IN  SelectSeq(all_students, LAMBDA r : r.phone_number \notin present_phones)

\* attendance_list showing only the rows of students of the roster
attendance_list_of_roster(store, files, course_id, session_id) ==
    LET table == load_attendance(store, course_id, session_id)
        all_students == load_csv_files(files)
        enrolled(rows) ==
            SelectSeq(rows, LAMBDA r : r.phone_number \in
                                          {s.phone_number : s \in Range(all_students)})
    IN  [present_students |-> enrolled(WithStatus(table, "entry")),
         rejected_students |-> enrolled(WithStatus(table, "reject")),
         exited_students |-> enrolled(WithStatus(table, "exit")),
         absent_students |-> absent_students(store, files, course_id, session_id)]

attendance_list(store, files, course_id, session_id) ==
    LET table == load_attendance(store, course_id, session_id)
    IN  [present_students |-> WithStatus(table, "entry"),
         rejected_students |-> WithStatus(table, "reject"),
         exited_students |-> WithStatus(table, "exit"),
         absent_students |-> absent_students(store, files, course_id, session_id)]

Export(columns, rows) == [success |-> TRUE, error |-> "", columns |-> columns, rows |-> rows]

ExportError(error) == [success |-> FALSE, error |-> error, columns |-> << >>, rows |-> << >>]

download_present(store, course_id, session_id) ==
    Export(ATTENDANCE_COLUMNS,
           WithStatus(load_attendance(store, course_id, session_id), "entry"))

download_rejected(store, course_id, session_id) ==
    Export(ATTENDANCE_COLUMNS,
           WithStatus(load_attendance(store, course_id, session_id), "reject"))

\* the table is bound to the name Attendance and then read as attendance, a
\* name that is bound nowhere: the filter raises NameError and the handler
\* answers with the error
download_exited(store, course_id, session_id) ==
    ExportError("name 'attendance' is not defined")

download_absent(store, files, course_id, session_id) ==
    LET rows == absent_students(store, files, course_id, session_id)
    IN  Export(<<"name", "phone_number">>,
               [i \in DOMAIN rows |->
                   [name |-> rows[i].name, phone_number |-> rows[i].phone_number]])

\* /search: the digits are validated, then resolved by their last four
search_student(files, phone_digits, photo_exists) ==
    IF phone_digits # << >> /\ Len(phone_digits) >= 4 /\ isdigit(phone_digits)
    THEN LET student == find_student(files, phone_digits, TRUE)
         IN  IF student # << >>
             THEN IF photo_exists
                  THEN [success |-> TRUE, error |-> "", student |-> student]
                  ELSE [success |-> FALSE, error |-> "Photo not found", student |-> << >>]
             ELSE [success |-> FALSE, error |-> "Student not found", student |-> << >>]
    ELSE [success |-> FALSE, error |-> "At least 4 digits required", student |-> << >>]

\* the pieces of a file name in the order of their first characters: '.',
\* the digits, '_', the letters
NameOrder == <<".csv", "0", "1", "2", "3", "4", "5", "6", "7", "8", "9",
               "_session_", "attendance_course_">>

\* str < str, character by character
RECURSIVE StrLess(_, _)
StrLess(a, b) ==
    IF a = << >> THEN b # << >>
    ELSE IF b = << >> THEN FALSE
    ELSE IF Head(a) = Head(b) THEN StrLess(Tail(a), Tail(b))
    ELSE LET rank(x) == CHOOSE i \in DOMAIN NameOrder : NameOrder[i] = x
         IN  rank(Head(a)) < rank(Head(b))

\* sorted(names, reverse=True)
RECURSIVE sorted_reverse(_)
sorted_reverse(names) ==
    IF names = {} THEN << >>
    ELSE LET top == CHOOSE x \in names : \A y \in names \ {x} : StrLess(y, x)
         IN  <<top>> \o sorted_reverse(names \ {top})

\* os.listdir(ATTENDANCE_FOLDER)
listdir(store) == {n \in DOMAIN store : store[n].exists}

\* the [:5] of get_attendance_history
HISTORY_LIMIT == 5

\* file.replace("attendance_", "").replace(".csv", "")
session_label(file) ==
    LET piece(x) == IF x = "attendance_course_" THEN <<"course_">>
                    ELSE IF x = ".csv" THEN << >> ELSE <<x>>
    IN  Concat([i \in DOMAIN file |-> piece(file[i])])

Reverse(s) == [i \in 1..Len(s) |-> s[Len(s) + 1 - i]]

\* get_attendance_history over the names in ascending order
get_attendance_history_ascending(store, phone_number) ==
    LET listing == Reverse(sorted_reverse(listdir(store)))
        files == SubSeq(listing, 1, IF Len(listing) < HISTORY_LIMIT THEN Len(listing)
                                    ELSE HISTORY_LIMIT)
        entry(file) ==
            LET df == read_csv(store[file].rows)
                student_record == SelectSeq(df, LAMBDA r : r.phone_number = phone_number)
            IN  IF endswith(file, <<".csv">>) /\ student_record # << >>
                THEN <<[session |-> session_label(file), status |-> student_record[1].status,
                        timestamp |-> student_record[1].timestamp]>>
                ELSE << >>
    IN  Concat([i \in DOMAIN files |-> entry(files[i])])

\* the first five names of the folder in descending order; of each that is a
\* .csv file, the first row of the given phone, if it has one
get_attendance_history(store, phone_number) ==
    LET listing == sorted_reverse(listdir(store))
        files == SubSeq(listing, 1, IF Len(listing) < HISTORY_LIMIT THEN Len(listing)
                                    ELSE HISTORY_LIMIT)
        entry(file) ==
            LET df == read_csv(store[file].rows)
                student_record == SelectSeq(df, LAMBDA r : r.phone_number = phone_number)
            IN  IF endswith(file, <<".csv">>) /\ student_record # << >>
                THEN <<[session |-> session_label(file), status |-> student_record[1].status,
                        timestamp |-> student_record[1].timestamp]>>
                ELSE << >>
    IN  Concat([i \in DOMAIN files |-> entry(files[i])])

\* /scan: the decoded text is resolved exactly, then the photo and the history
scan_qr(files, store, data, photo_exists) ==
    IF data # << >>
    THEN LET student == find_student(files, data, FALSE)
         IN  IF student # << >>
             THEN IF photo_exists
                  THEN [success |-> TRUE, error |-> "", student |-> student,
                        history |-> get_attendance_history(store, data)]
                  ELSE [success |-> FALSE, error |-> "Photo not found", student |-> << >>,
                        history |-> << >>]
             ELSE [success |-> FALSE, error |-> "Student not found", student |-> << >>,
                   history |-> << >>]
    ELSE [success |-> FALSE, error |-> "No QR code detected", student |-> << >>,
          history |-> << >>]

-----------------------------------------------------------------------------
(* The handlers, one request at a time *)

Workers == {"w1", "w2"}

\* a worker between requests: how many requests it has started, and what the
\* last one answered; acks counts the saves of the worker that returned
\* success since the session file was last removed
Idle(calls, success, message) ==
    [op |-> "none", args |-> << >>, table |-> EmptyTable, student |-> << >>,
     status |-> "", found |-> FALSE, calls |-> calls, success |-> success,
     message |-> message, acks |-> 0]

\* what a call returned; again says that the call before it was the same
\* operation with the same arguments and succeeded
Reply(op, args, success, message, body, before) ==
    [op |-> op, args |-> args, success |-> success, message |-> message,
     body |-> body, before |-> before,
     again |-> resp.op = op /\ resp.args = args /\ resp.success]

\* the rosters the recording handlers are run on: two students with different
\* phone cells, in one file or in two (one roster for each pair of cells)
RecordingRosters ==
    {r \in Rosters :
        LET first == r[1].rows[1].phone_number
            last == r[Len(r)].rows[Len(r[Len(r)].rows)].phone_number
        IN  /\ Len(load_csv_files(r)) = 2
            /\ \E i, j \in DOMAIN PhoneList :
                   i < j /\ PhoneList[i] = first /\ PhoneList[j] = last}

\* one roster file of two students, one of them with a leading zero
HistoryRosters ==
    {r \in RecordingRosters :
        Len(r) = 1 /\ \E i \in DOMAIN r[1].rows : r[1].rows[i].phone_number = PhoneList[2]}

InitWith(rosters) ==
    /\ students \in rosters
    /\ attendance = [n \in FileNames |-> NoFile]
    /\ students_csv = NoFile
    /\ modified = << >>
    /\ resp = [op |-> "none", args |-> << >>, success |-> FALSE, message |-> "",
               body |-> << >>, before |-> NoFile, again |-> FALSE]
    /\ pc = [w \in Workers |-> "idle"]
    /\ req = [w \in Workers |-> Idle(0, FALSE, "")]

Init == InitWith(RecordingRosters)

\* POST /attendance
UpdateAttendance ==
    \E phone_number \in RequestPhones, status \in Statuses,
       course_id \in CourseIds, session_id \in SessionIds, now \in Timestamps :
        LET student == find_student(students, phone_number, FALSE)
            before == attendance[AttendanceFile(course_id, session_id)]
            args == <<course_id, session_id, phone_number>>
        IN  /\ IF student # << >>
               THEN LET saved == save_attendance(attendance, student[1], status,
                                                 course_id, session_id, now)
                    IN  /\ TotalRows(saved.store) <= MaxEvents
                        /\ attendance' = saved.store
                        /\ resp' = Reply("update_attendance", args, saved.success,
                                         saved.message, student, before)
               ELSE /\ attendance' = attendance
                    /\ resp' = Reply("update_attendance", args, FALSE,
                                     "Student not found", << >>, before)
            /\ modified' = Modified(modified, attendance, attendance')
            /\ UNCHANGED <<students, students_csv, pc, req>>

\* POST /reset_attendance
ResetAttendance ==
    \E course_id \in CourseIds, session_id \in SessionIds :
        LET done == reset_attendance(attendance, course_id, session_id)
        IN  /\ attendance' = done.store
            /\ resp' = Reply("reset_attendance", <<course_id, session_id>>, done.success,
                             done.message, << >>,
                             attendance[AttendanceFile(course_id, session_id)])
            /\ modified' = Modified(modified, attendance, attendance')
            /\ UNCHANGED <<students, students_csv, pc, req>>

\* load_attendance, called on its own
LoadAttendance ==
    \E course_id \in CourseIds, session_id \in SessionIds :
        /\ resp' = Reply("load_attendance", <<course_id, session_id>>, TRUE, "",
                         load_attendance(attendance, course_id, session_id),
                         attendance[AttendanceFile(course_id, session_id)])
        /\ UNCHANGED <<students, attendance, students_csv, modified, pc, req>>

\* GET /attendance_list
AttendanceList ==
    \E course_id \in CourseIds, session_id \in SessionIds :
        /\ resp' = Reply("attendance_list", <<course_id, session_id>>, TRUE, "",
                         attendance_list(attendance, students, course_id, session_id),
                         attendance[AttendanceFile(course_id, session_id)])
        /\ UNCHANGED <<students, attendance, students_csv, modified, pc, req>>

\* GET /download_present
DownloadPresent ==
    \E course_id \in CourseIds, session_id \in SessionIds :
        LET export == download_present(attendance, course_id, session_id)
        IN  /\ resp' = Reply("download_present", <<course_id, session_id>>, export.success,
                             export.error, export,
                             attendance[AttendanceFile(course_id, session_id)])
            /\ UNCHANGED <<students, attendance, students_csv, modified, pc, req>>

\* GET /download_rejected
DownloadRejected ==
    \E course_id \in CourseIds, session_id \in SessionIds :
        LET export == download_rejected(attendance, course_id, session_id)
        IN  /\ resp' = Reply("download_rejected", <<course_id, session_id>>, export.success,
                             export.error, export,
                             attendance[AttendanceFile(course_id, session_id)])
            /\ UNCHANGED <<students, attendance, students_csv, modified, pc, req>>

\* GET /download_exited
DownloadExited ==
    \E course_id \in CourseIds, session_id \in SessionIds :
        LET export == download_exited(attendance, course_id, session_id)
        IN  /\ resp' = Reply("download_exited", <<course_id, session_id>>, export.success,
                             export.error, export,
                             attendance[AttendanceFile(course_id, session_id)])
            /\ UNCHANGED <<students, attendance, students_csv, modified, pc, req>>

\* GET /download_absent
DownloadAbsent ==
    \E course_id \in CourseIds, session_id \in SessionIds :
        LET export == download_absent(attendance, students, course_id, session_id)
        IN  /\ resp' = Reply("download_absent", <<course_id, session_id>>, export.success,
                             export.error, export,
                             attendance[AttendanceFile(course_id, session_id)])
            /\ UNCHANGED <<students, attendance, students_csv, modified, pc, req>>

\* POST /search
SearchStudent ==
    \E phone_digits \in SearchDigits, photo_exists \in BOOLEAN :
        LET found == search_student(students, phone_digits, photo_exists)
        IN  /\ resp' = Reply("search_student", <<phone_digits>>, found.success,
                             found.error, found.student, NoFile)
            /\ UNCHANGED <<students, attendance, students_csv, modified, pc, req>>

Next ==
    \/ UpdateAttendance
    \/ ResetAttendance
    \/ LoadAttendance
    \/ AttendanceList
    \/ DownloadPresent
    \/ DownloadRejected
    \/ DownloadExited
    \/ DownloadAbsent

Spec == Init /\ [][Next]_vars

-----------------------------------------------------------------------------
(* The recording handlers run by concurrent workers: a request reads the *)
(* file in one step and writes it in a later one.  A read_csv, a to_csv   *)
(* and an os.remove each act on the whole file in one step.               *)

ConcPhones == { <<"5", "1", "2", "3", "4">>, <<"1", "2", "3", "4">>, <<"7", "7", "7", "7">> }

ConcStatuses == {"entry", "exit"}

ConcTimestamps == {"2024-01-01 09:00:00"}

\* the rosters of the concurrent runs: those of RecordingRosters whose phone
\* cells are all numbers
ConcRosters ==
    {r \in RecordingRosters :
        \A i \in DOMAIN r : \A j \in DOMAIN r[i].rows : isdigit(r[i].rows[j].phone_number)}

\* the number of requests started so far, which MaxCalls bounds
RECURSIVE SumCalls(_)
SumCalls(workers) ==
    IF workers = {} THEN 0
    ELSE LET w == CHOOSE x \in workers : TRUE
         IN  req[w].calls + SumCalls(workers \ {w})

\* update_attendance up to the load_attendance of save_attendance
StartUpdate(w) ==
    /\ pc[w] = "idle"
    /\ SumCalls(Workers) < MaxCalls
    /\ \E phone_number \in ConcPhones, status \in ConcStatuses,
          course_id \in CourseIds, session_id \in SessionIds :
          LET student == find_student(students, phone_number, FALSE)
          IN  IF student # << >>
              THEN /\ req' = [req EXCEPT ![w] =
                                 [op |-> "update_attendance",
                                  args |-> <<course_id, session_id>>,
                                  table |-> load_attendance(attendance, course_id, session_id),
                                  student |-> student, status |-> status, found |-> FALSE,
                                  calls |-> req[w].calls + 1, success |-> FALSE,
                                  message |-> "", acks |-> req[w].acks]]
                   /\ pc' = [pc EXCEPT ![w] = "loaded"]
                   /\ resp' = resp
              ELSE /\ req' = [req EXCEPT ![w] =
                                 [Idle(req[w].calls + 1, FALSE, "Student not found")
                                     EXCEPT !.acks = req[w].acks]]
                   /\ pc' = pc
                   /\ resp' = Reply("update_attendance",
                                    <<course_id, session_id, phone_number>>, FALSE,
                                    "Student not found", << >>,
                                    attendance[AttendanceFile(course_id, session_id)])
    /\ UNCHANGED <<students, attendance, students_csv, modified>>

\* save_attendance from the duplicate check on, on the table loaded before
FinishUpdate(w) ==
    /\ pc[w] = "loaded"
    /\ \E now \in ConcTimestamps :
          LET saved == write_attendance(attendance, req[w].table, req[w].student[1],
                                        req[w].status, req[w].args[1], req[w].args[2], now)
          IN  /\ attendance' = saved.store
              /\ req' = [req EXCEPT ![w] =
                            [Idle(req[w].calls, saved.success, saved.message)
                                EXCEPT !.acks = req[w].acks + IF saved.success THEN 1 ELSE 0]]
              /\ resp' = Reply("update_attendance",
                               <<req[w].args[1], req[w].args[2],
                                 req[w].student[1].phone_number>>,
                               saved.success, saved.message, req[w].student,
                               attendance[AttendanceFile(req[w].args[1], req[w].args[2])])
    /\ pc' = [pc EXCEPT ![w] = "idle"]
    /\ modified' = Modified(modified, attendance, attendance')
    /\ UNCHANGED <<students, students_csv>>

\* reset_attendance up to its os.path.exists test
StartReset(w) ==
    /\ pc[w] = "idle"
    /\ SumCalls(Workers) < MaxCalls
    /\ \E course_id \in CourseIds, session_id \in SessionIds :
          req' = [req EXCEPT ![w] =
                     [op |-> "reset_attendance", args |-> <<course_id, session_id>>,
                      table |-> EmptyTable, student |-> << >>, status |-> "",
                      found |-> attendance[AttendanceFile(course_id, session_id)].exists,
                      calls |-> req[w].calls + 1, success |-> FALSE, message |-> "",
                      acks |-> req[w].acks]]
    /\ pc' = [pc EXCEPT ![w] = "checked"]
    /\ UNCHANGED <<students, attendance, students_csv, modified, resp>>

\* reset_attendance from the os.remove on
FinishReset(w) ==
    /\ pc[w] = "checked"
    /\ LET done == remove_attendance(attendance, req[w].found, req[w].args[1], req[w].args[2])
       IN  /\ attendance' = done.store
           /\ req' = [v \in Workers |->
                         LET acks == IF req[w].found /\ done.success THEN 0 ELSE req[v].acks
                         IN  IF v = w
                             THEN [Idle(req[w].calls, done.success, done.message)
                                      EXCEPT !.acks = acks]
                             ELSE [req[v] EXCEPT !.acks = acks]]
           /\ resp' = Reply("reset_attendance", req[w].args, done.success, done.message,
                            << >>, attendance[AttendanceFile(req[w].args[1], req[w].args[2])])
    /\ pc' = [pc EXCEPT ![w] = "idle"]
    /\ modified' = Modified(modified, attendance, attendance')
    /\ UNCHANGED <<students, students_csv>>

InitConc == InitWith(ConcRosters)

NextConc ==
    \E w \in Workers :
        \/ StartUpdate(w)
        \/ FinishUpdate(w)
        \/ StartReset(w)
        \/ FinishReset(w)

SpecConc == InitConc /\ [][NextConc]_vars

InitSearch == InitWith(Rosters)

NextSearch == SearchStudent

SpecSearch == InitSearch /\ [][NextSearch]_vars

-----------------------------------------------------------------------------
(* The recording handlers over a session file that may not parse *)

\* POST /attendance; read_error says that pd.read_csv raises on the session file
UpdateAttendanceUnreadable ==
    \E phone_number \in RequestPhones, status \in ConcStatuses,
       course_id \in CourseIds, session_id \in SessionIds, now \in Timestamps,
       read_error \in {"read", "read error"} :
        LET student == find_student(students, phone_number, FALSE)
            before == attendance[AttendanceFile(course_id, session_id)]
            args == <<course_id, session_id, phone_number, read_error>>
        IN  /\ read_error = "read error" => student # << >> /\ before.exists
            /\ IF student # << >>
               THEN LET table == load_attendance_or_error(attendance, course_id, session_id,
                                                          read_error = "read error")
                        saved == write_attendance(attendance, table, student[1], status,
                                                  course_id, session_id, now)
                    IN  /\ TotalRows(saved.store) <= MaxEvents
                        /\ attendance' = saved.store
                        /\ resp' = Reply("update_attendance", args, saved.success,
                                         saved.message, student, before)
               ELSE /\ attendance' = attendance
                    /\ resp' = Reply("update_attendance", args, FALSE,
                                     "Student not found", << >>, before)
            /\ modified' = Modified(modified, attendance, attendance')
            /\ UNCHANGED <<students, students_csv, pc, req>>

NextUnreadable ==
    \/ UpdateAttendanceUnreadable
    \/ ResetAttendance

SpecUnreadable == Init /\ [][NextUnreadable]_vars

-----------------------------------------------------------------------------
(* The handlers that change the roster *)

\* the name add_student gives an uploaded roster: f"students_{timestamp}.csv"
UploadName == <<"students", "_", "%Y%m%d_%H%M%S", ".csv">>

\* the name add_student and delete_student write to: "students.csv"
StudentsCsvName == <<"students", ".csv">>

startswith(s, t) == Len(t) <= Len(s) /\ SubSeq(s, 1, Len(t)) = t

\* the files of DATA_FOLDER that load_csv_files reads: those of the listing
\* whose name ends with ".csv" and starts with "students_"
roster_files(files, manual) ==
    LET uploads == [i \in DOMAIN files |-> [name |-> UploadName, file |-> files[i]]]
        listing == IF manual.exists
                   THEN Append(uploads, [name |-> StudentsCsvName,
                                         file |-> [columns |-> manual.columns,
                                                   rows |-> manual.rows]])
                   ELSE uploads
        read == SelectSeq(listing, LAMBDA e : /\ endswith(e.name, <<".csv">>)
                                              /\ startswith(e.name, <<"students", "_">>))
    IN  [i \in DOMAIN read |-> read[i].file]

\* the phones asked to be enrolled by hand
EnrolPhones == { <<"6", "1", "2", "3", "4">>, <<"0", "6", "2", "3", "4">>,
                 <<"x", "6", "2", "3", "4">>, << >> }

\* the roster files asked to be uploaded
UploadFiles ==
    { RosterFile(<<StudentRow("Carol", p)>>) : p \in EnrolPhones \ { << >> } }
    \cup { [columns |-> <<"name", "phone_number">>,
            rows |-> <<StudentRow("Carol", <<"6", "1", "2", "3", "4">>)>>] }

\* POST /delete_student
DeleteStudent ==
    \E phone_number \in RequestPhones :
        LET all_students == load_csv_files(roster_files(students, students_csv))
            kept == SelectSeq(all_students, LAMBDA r : r.phone_number # phone_number)
        IN  /\ IF phone_number \in {all_students[i].phone_number : i \in DOMAIN all_students}
               THEN /\ students_csv' = to_csv([columns |-> CSV_COLUMNS, rows |-> kept])
                    /\ resp' = Reply("delete_student", <<phone_number>>, TRUE, "redirect",
                                     << >>, students_csv)
               ELSE /\ students_csv' = students_csv
                    /\ resp' = Reply("delete_student", <<phone_number>>, FALSE,
                                     "Student not found", << >>, students_csv)
            /\ UNCHANGED <<students, attendance, modified, pc, req>>

\* POST /add_student with the form fields of one student
AddStudent ==
    \E name \in {"Carol", ""}, phone_number \in EnrolPhones, photo \in BOOLEAN :
        LET args == <<"form", name, phone_number>>
            new_student == [name |-> name, phone_number |-> phone_number,
                            photo |-> phone_number \o <<"_", "photo.jpg">>]
            existing == read_csv(students_csv.rows)
            updated == IF students_csv.exists
                       THEN [columns |-> students_csv.columns,
                             rows |-> Append(existing, new_student)]
                       ELSE [columns |-> CSV_COLUMNS, rows |-> <<new_student>>]
        IN  /\ IF name # "" /\ phone_number # << >> /\ photo
               THEN IF ~isdigit(phone_number)
                    THEN /\ students_csv' = students_csv
                         /\ resp' = Reply("add_student", args, FALSE,
                                          "Phone number must be digits only", << >>,
                                          students_csv)
                    ELSE /\ Len(updated.rows) <= MaxRoster
                         /\ students_csv' = to_csv(updated)
                         /\ resp' = Reply("add_student", args, TRUE, "redirect",
                                          <<new_student>>, students_csv)
               ELSE /\ students_csv' = students_csv
                    /\ resp' = Reply("add_student", args, FALSE,
                                     "All fields (name, phone_number, photo) are required",
                                     << >>, students_csv)
            /\ UNCHANGED <<students, attendance, modified, pc, req>>

\* POST /add_student with a roster file; photos says that every photo the
\* file names is in PHOTOS_FOLDER
AddStudentCsv ==
    \E file \in UploadFiles, filename \in {<<"new", ".csv">>, <<"new", ".txt">>},
       photos \in BOOLEAN :
        LET args == <<"csv_file", filename, file>>
            df == [columns |-> file.columns, rows |-> read_csv(file.rows)]
            valid == \A col \in Range(CSV_COLUMNS) : col \in Range(df.columns)
            answer(success, message) ==
                Reply("add_student", args, success, message, df.rows, students_csv)
        IN  /\ IF ~endswith(filename, <<".csv">>)
               THEN /\ students' = students
                    /\ resp' = answer(FALSE, "Invalid file format. Please upload a CSV file.")
               ELSE IF ~valid
               THEN /\ students' = students
                    /\ resp' = answer(FALSE, "CSV missing required columns: name, phone_number, photo")
               ELSE IF ~photos
               THEN /\ students' = students
                    /\ resp' = answer(FALSE, "Photo not found")
               ELSE /\ Len(students) < MaxRoster
                    /\ students' = Append(students, df)
                    /\ resp' = answer(TRUE, "redirect")
            /\ UNCHANGED <<attendance, students_csv, modified, pc, req>>

InitRoster == InitWith(HistoryRosters)

NextRoster ==
    \/ DeleteStudent
    \/ AddStudent
    \/ AddStudentCsv

SpecRoster == InitRoster /\ [][NextRoster]_vars

-----------------------------------------------------------------------------
(* The recording handlers with course and session ids that are any text *)

\* course_id and session_id values of a request: the handlers take any text
KeyCourseIds == { <<"1">>, <<"1", "_session_", "2">> }

KeySessionIds == { <<"3">>, <<"2", "_session_", "3">> }

KeyFileNames == {AttendanceFile(c, s) : c \in KeyCourseIds, s \in KeySessionIds}

InitKeys ==
    /\ students \in ConcRosters
    /\ attendance = [n \in KeyFileNames |-> NoFile]
    /\ students_csv = NoFile
    /\ modified = << >>
    /\ resp = [op |-> "none", args |-> << >>, success |-> FALSE, message |-> "",
               body |-> << >>, before |-> NoFile, again |-> FALSE]
    /\ pc = [w \in Workers |-> "idle"]
    /\ req = [w \in Workers |-> Idle(0, FALSE, "")]

\* POST /attendance
UpdateAttendanceKeyed ==
    \E phone_number \in ConcPhones, status \in ConcStatuses,
       course_id \in KeyCourseIds, session_id \in KeySessionIds, now \in ConcTimestamps :
        LET student == find_student(students, phone_number, FALSE)
            before == attendance[AttendanceFile(course_id, session_id)]
            args == <<course_id, session_id, phone_number>>
        IN  /\ IF student # << >>
               THEN LET saved == save_attendance(attendance, student[1], status,
                                                 course_id, session_id, now)
                    IN  /\ TotalRows(saved.store) <= MaxEvents
                        /\ attendance' = saved.store
                        /\ resp' = Reply("update_attendance", args, saved.success,
                                         saved.message, student, before)
               ELSE /\ attendance' = attendance
                    /\ resp' = Reply("update_attendance", args, FALSE,
                                     "Student not found", << >>, before)
            /\ modified' = Modified(modified, attendance, attendance')
            /\ UNCHANGED <<students, students_csv, pc, req>>

\* POST /reset_attendance
ResetAttendanceKeyed ==
    \E course_id \in KeyCourseIds, session_id \in KeySessionIds :
        LET done == reset_attendance(attendance, course_id, session_id)
        IN  /\ attendance' = done.store
            /\ resp' = Reply("reset_attendance", <<course_id, session_id>>, done.success,
                             done.message, << >>,
                             attendance[AttendanceFile(course_id, session_id)])
            /\ modified' = Modified(modified, attendance, attendance')
            /\ UNCHANGED <<students, students_csv, pc, req>>

NextKeys ==
    \/ UpdateAttendanceKeyed
    \/ ResetAttendanceKeyed

SpecKeys == InitKeys /\ [][NextKeys]_vars

-----------------------------------------------------------------------------
(* The scan of a QR code over an attendance folder of several sessions *)

\* the attendance folder after one student was recorded in each chosen
\* session: recorded[s] is the roster row recorded in session s, 0 for none
RecordedOnce(files, recorded) ==
    LET empty == [n \in FileNames |-> NoFile]
        saved(c, s) == save_attendance(empty, load_csv_files(files)[recorded[s]], "entry",
                                       c, s, "2024-01-01 09:00:00").store[AttendanceFile(c, s)]
        file(n) == LET c == CHOOSE c \in CourseIds : \E s \in HistorySessionIds :
                                 n = AttendanceFile(c, s)
                       s == CHOOSE s \in HistorySessionIds : n = AttendanceFile(c, s)
                   IN  IF recorded[s] = 0 THEN NoFile ELSE saved(c, s)
    IN  [n \in FileNames |-> file(n)]

\* the sessions were recorded in the order of their names or against it
InitHistory ==
    /\ students \in HistoryRosters
    /\ \E recorded \in [HistorySessionIds -> 0..2] :
           attendance = RecordedOnce(students, recorded)
    /\ students_csv = NoFile
    /\ modified \in {sorted_reverse(listdir(attendance)),
                     Reverse(sorted_reverse(listdir(attendance)))}
    /\ resp = [op |-> "none", args |-> << >>, success |-> FALSE, message |-> "",
               body |-> << >>, before |-> NoFile, again |-> FALSE]
    /\ pc = [w \in Workers |-> "idle"]
    /\ req = [w \in Workers |-> Idle(0, FALSE, "")]

\* POST /scan; data is what the detector decoded, empty for no code
ScanQr ==
    \E data \in RequestPhones \cup { << >> }, photo_exists \in BOOLEAN :
        LET found == scan_qr(students, attendance, data, photo_exists)
        IN  /\ resp' = Reply("scan_qr", <<data>>, found.success, found.error,
                             [student |-> found.student, history |-> found.history], NoFile)
            /\ UNCHANGED <<students, attendance, students_csv, modified, pc, req>>

NextHistory == ScanQr

SpecHistory == InitHistory /\ [][NextHistory]_vars

-----------------------------------------------------------------------------
(* Properties *)

Duplicate == "Duplicate attendance entry for this student"

ValidStatuses == {"entry", "exit", "reject"}

\* the identifiers of the rows of a view or table, as strings
Ids(rows) == {r.phone_number : r \in Range(rows)}

RosterIds == Ids(load_csv_files(students))

\* the rows of the session of the last call, as load_attendance returns them
RespRows == load_attendance(attendance, resp.args[1], resp.args[2]).rows

\* C1: an update that directly follows a successful update for the same
\* phone in the same session is refused as a duplicate, leaves the file as it
\* was, and the file holds exactly one row for that student.
C1_RepeatedAppendRefused ==
    (resp.op = "update_attendance" /\ resp.again) =>
        /\ ~resp.success
        /\ resp.message = Duplicate
        /\ attendance[AttendanceFile(resp.args[1], resp.args[2])] = resp.before
        /\ Cardinality({i \in DOMAIN RespRows :
                           RespRows[i].phone_number = resp.body[1].phone_number}) = 1

\* C2: in every attendance file, as load_attendance reads it, no two rows
\* have the same phone_number string.
C2_OneEventPerIdentifier ==
    \A c \in CourseIds, s \in SessionIds :
        LET rows == load_attendance(attendance, c, s).rows
        IN  \A i, j \in DOMAIN rows :
               rows[i].phone_number = rows[j].phone_number => i = j

\* C3: the four views of attendance_list share no identifier.
C3_ViewsDisjoint ==
    resp.op = "attendance_list" =>
        LET views == << Ids(resp.body.present_students), Ids(resp.body.rejected_students),
                        Ids(resp.body.exited_students), Ids(resp.body.absent_students) >>
        IN  \A i, j \in 1..4 : i < j => views[i] \cap views[j] = {}

\* C4: every roster identifier is in at least one of the four views of
\* attendance_list.
C4_ViewsCoverRoster ==
    resp.op = "attendance_list" =>
        RosterIds \subseteq
            (Ids(resp.body.present_students) \cup Ids(resp.body.rejected_students)
             \cup Ids(resp.body.exited_students) \cup Ids(resp.body.absent_students))

\* an attendance_list answer with a present and an absent student, and a
\* roster student whose only row has a status that is none of the three
C4_Witness ==
    /\ resp.op = "attendance_list"
    /\ resp.body.present_students # << >>
    /\ resp.body.absent_students # << >>
    /\ \E r \in Range(RespRows) :
          r.phone_number \in RosterIds /\ r.status \notin ValidStatuses

\* the roster rows with no row of any status in the session of the last call
Unrecorded ==
    SelectSeq(load_csv_files(students), LAMBDA r : r.phone_number \notin Ids(RespRows))

\* C5: the absent view and the absent export are exactly the roster rows
\* with no event of any status in the session.
C5_AbsentIsUnrecorded ==
    /\ resp.op = "attendance_list" => resp.body.absent_students = Unrecorded
    /\ resp.op = "download_absent" =>
          /\ resp.success
          /\ Len(resp.body.rows) = Len(Unrecorded)
          /\ \A i \in DOMAIN Unrecorded :
                /\ resp.body.rows[i].name = Unrecorded[i].name
                /\ resp.body.rows[i].phone_number = Unrecorded[i].phone_number

\* C6: every reset answers with the redirect and leaves load_attendance
\* empty for its session, the second of two resets in a row included.
C6_ResetIdempotent ==
    resp.op = "reset_attendance" =>
        /\ resp.success
        /\ resp.message = "redirect"
        /\ load_attendance(attendance, resp.args[1], resp.args[2]) = EmptyTable

\* the second of two resets in a row: it found no file
C6_Witness ==
    resp.op = "reset_attendance" /\ resp.again /\ ~resp.before.exists /\ resp.success

\* a step that brings an attendance file into existence
Created == \E n \in FileNames : ~attendance[n].exists /\ attendance'[n].exists

\* C7: load_attendance on a session with no file returns the empty table
\* with the four columns, and the file still does not exist afterwards; a
\* file comes to exist only in a step that is a successful update.
C7_LoadOfNoFile ==
    /\ [](resp.op = "load_attendance" /\ ~resp.before.exists =>
            /\ resp.success
            /\ resp.body = [columns |-> <<"name", "phone_number", "status", "timestamp">>,
                            rows |-> << >>]
            /\ ~attendance[AttendanceFile(resp.args[1], resp.args[2])].exists)
    /\ [][Created => resp'.op = "update_attendance" /\ resp'.success]_vars

\* load_attendance was called on a session whose file a reset had removed
C7_Witness ==
    /\ resp.op = "load_attendance"
    /\ ~resp.before.exists
    /\ resp.body.rows = << >>

\* C8 as stated: a search with d of four or more digits returns only a
\* student whose phone ends with the whole of d, and returns no student when
\* no roster phone ends with d.
C8_SuffixOfWholeInput ==
    (resp.op = "search_student" /\ Len(resp.args[1]) >= 4 /\ isdigit(resp.args[1])) =>
        /\ resp.success => endswith(resp.body[1].phone_number, resp.args[1])
        /\ (\A id \in RosterIds : ~endswith(id, resp.args[1])) => ~resp.success

\* C8, amended: a search with d of four or more digits returns only a roster
\* row whose loaded phone ends with the last four digits of d, and answers
\* not found when no loaded roster phone ends with those four digits.
C8_SuffixOfLastFour ==
    (resp.op = "search_student" /\ Len(resp.args[1]) >= 4 /\ isdigit(resp.args[1])) =>
        LET last4 == SubSeq(resp.args[1], Len(resp.args[1]) - 3, Len(resp.args[1]))
        IN  /\ resp.success =>
                  /\ resp.body[1] \in Range(load_csv_files(students))
                  /\ endswith(resp.body[1].phone_number, last4)
            /\ (\A id \in RosterIds : ~endswith(id, last4)) =>
                  (~resp.success /\ resp.message = "Student not found")

\* a search with five digits returned a student whose phone ends with the
\* last four of them and not with all five
C8_Witness ==
    /\ resp.op = "search_student"
    /\ Len(resp.args[1]) = 5
    /\ resp.success
    /\ ~endswith(resp.body[1].phone_number, resp.args[1])

\* C9: every row of every attendance file has one of the three statuses.
C9_StatusIsValid ==
    \A n \in FileNames : \A r \in Range(attendance[n].rows) : r.status \in ValidStatuses

\* C10: the export for entry, reject and exit succeeds and holds the four
\* columns and exactly the session's rows of that status, in file order.
C10_ExportByStatus ==
    \A op \in {"download_present", "download_rejected", "download_exited"} :
        resp.op = op =>
            LET status == CASE op = "download_present" -> "entry"
                            [] op = "download_rejected" -> "reject"
                            [] op = "download_exited" -> "exit"
            IN  /\ resp.success
                /\ resp.body.columns = <<"name", "phone_number", "status", "timestamp">>
                /\ resp.body.rows = SelectSeq(RespRows, LAMBDA r : r.status = status)

\* the five greatest names of the attendance folder
Scanned == {n \in listdir(attendance) :
               Cardinality({m \in listdir(attendance) : StrLess(n, m)}) < HISTORY_LIMIT}

\* the phone cells of a file, as the file holds them
Cells(file) == {file.rows[i].phone_number : i \in DOMAIN file.rows}

\* the sessions of the history the last scan returned
HistorySessions == {resp.body.history[i].session : i \in DOMAIN resp.body.history}

\* C11: the history of a phone has one entry for each scanned session file that
\* holds the phone and none for a file that does not; it is empty when no
\* scanned file holds it, and the call never ends in an error.
C11_HistoryOfHoldingSets ==
    (resp.op = "scan_qr" /\ resp.success) =>
        LET holding == {n \in Scanned : resp.args[1] \in Cells(attendance[n])}
        IN  /\ HistorySessions = {session_label(n) : n \in holding}
            /\ Len(resp.body.history) = Cardinality(holding)

\* the rows of a file that carry the phone the last call was made for
RowsOfCaller(file) ==
    {i \in DOMAIN file.rows : read_csv(file.rows)[i].phone_number = resp.body[1].phone_number}

\* the last call was a save that returned success although the file already
\* held the caller when it wrote: the call passed the duplicate check on a
\* table it had loaded before the other save wrote
Raced ==
    /\ resp.op = "update_attendance"
    /\ resp.success
    /\ RowsOfCaller(resp.before) # {}

\* C12 as stated: after two concurrent saves of one not yet recorded identifier
\* have both passed the duplicate check before either wrote, the session file
\* holds two records of that identifier.
C12_RaceLeavesTwoRecords ==
    Raced => Cardinality(RowsOfCaller(attendance[AttendanceFile(resp.args[1], resp.args[2])])) = 2

\* C12, amended: after such a race the session file holds one record of the
\* identifier, the last row of the file: the later write replaced the earlier
\* record.
C12_RaceLeavesOneRecord ==
    Raced =>
        LET file == attendance[AttendanceFile(resp.args[1], resp.args[2])]
        IN  RowsOfCaller(file) = {Len(file.rows)}

C12_Witness ==
    /\ Raced
    /\ \A w \in Workers : pc[w] = "idle" /\ req[w].success /\ req[w].calls = 1

\* C13: a save whose load of the session file failed writes nothing: it
\* reports failure and the session file is as it was before the call.
C13_FailedLoadWritesNothing ==
    (resp.op = "update_attendance" /\ Len(resp.args) = 4 /\ resp.args[4] = "read error") =>
        /\ ~resp.success
        /\ attendance[AttendanceFile(resp.args[1], resp.args[2])] = resp.before

\* the rows of a are rows of b, in the same order
Subseq(a, b) ==
    \E f \in [DOMAIN a -> DOMAIN b] :
        /\ \A i, j \in DOMAIN a : i < j => f[i] < f[j]
        /\ \A i \in DOMAIN a : b[f[i]] = a[i]

\* C14: a step that does not remove a session file keeps every event of the
\* file, with its fields and in the order of insertion, under any
\* interleaving of the saves.
C14_WrittenEventsStay ==
    [][\A n \in FileNames :
          attendance'[n].exists => Subseq(attendance[n].rows, attendance'[n].rows)]_vars

\* the roster load_csv_files returns in this state
Roster == load_csv_files(roster_files(students, students_csv))

\* C15: after delete_student(p) has succeeded the roster no longer holds p,
\* and the exact resolution of p finds no one.
C15_DeletedIsGone ==
    (resp.op = "delete_student" /\ resp.success) =>
        /\ resp.args[1] \notin Ids(Roster)
        /\ find_student(roster_files(students, students_csv), resp.args[1], FALSE) = << >>

\* C16: after an enrolment by the form has succeeded the roster holds the
\* student, and the exact resolution of the phone returns the student.
C16_EnrolledIsLoaded ==
    (resp.op = "add_student" /\ resp.success /\ resp.args[1] = "form") =>
        LET student == find_student(roster_files(students, students_csv), resp.args[3], FALSE)
        IN  /\ \E i \in DOMAIN Roster : /\ Roster[i].name = resp.args[2]
                                         /\ Roster[i].phone_number = resp.args[3]
            /\ student # << >>
            /\ student[1].name = resp.args[2]

\* the events of the listed session whose identifier is not in the roster
OffRoster == {r \in Range(RespRows) : r.phone_number \notin RosterIds}

\* C17 as stated: an event whose identifier is not in the roster is in none of
\* the views present, rejected, exited and absent of attendance_list.
C17_OffRosterInNoView ==
    resp.op = "attendance_list" =>
        \A r \in OffRoster :
            r.phone_number \notin
                (Ids(resp.body.present_students) \cup Ids(resp.body.rejected_students)
                 \cup Ids(resp.body.exited_students) \cup Ids(resp.body.absent_students))

\* C17, amended: an event whose identifier is not in the roster is in the view
\* of its status (present for entry, rejected for reject, exited for exit),
\* and its identifier is not in the absent view.
C17_OffRosterInViewOfStatus ==
    resp.op = "attendance_list" =>
        \A r \in OffRoster :
            /\ r.status = "entry" => r \in Range(resp.body.present_students)
            /\ r.status = "reject" => r \in Range(resp.body.rejected_students)
            /\ r.status = "exit" => r \in Range(resp.body.exited_students)
            /\ r.phone_number \notin Ids(resp.body.absent_students)

C17_Witness ==
    /\ resp.op = "attendance_list"
    /\ \E r \in OffRoster : r.status = "reject" /\ r \in Range(resp.body.rejected_students)
    /\ \E r \in Range(RespRows) : r \notin OffRoster

\* the five attendance files written last
MostRecent == {modified[i] : i \in {k \in DOMAIN modified : k > Len(modified) - HISTORY_LIMIT}}

\* the file a history entry was made from, and its place in the order of writes
FileOf(entry) == CHOOSE n \in FileNames : session_label(n) = entry.session

WrittenAt(n) == CHOOSE i \in DOMAIN modified : modified[i] = n

\* the file holds a row of the phone of the last scan, as read_csv returns it
Holds(n) == resp.args[1] \in Ids(read_csv(attendance[n].rows))

\* C18 as stated: the history is made from the five most recently modified
\* session files, has at most five entries, and lists them from the most
\* recently modified session to the least.
C18_FiveMostRecentlyModified ==
    (resp.op = "scan_qr" /\ resp.success) =>
        LET history == resp.body.history
        IN  /\ HistorySessions = {session_label(n) : n \in {m \in MostRecent : Holds(m)}}
            /\ Len(history) <= HISTORY_LIMIT
            /\ \A i, j \in DOMAIN history :
                   i < j => WrittenAt(FileOf(history[i])) > WrittenAt(FileOf(history[j]))

\* C18, amended: the history is made from the five session files whose names
\* are greatest, has at most five entries, and lists them from the greatest
\* file name to the least.
C18_FiveGreatestNames ==
    (resp.op = "scan_qr" /\ resp.success) =>
        LET history == resp.body.history
        IN  /\ HistorySessions = {session_label(n) : n \in {m \in Scanned : Holds(m)}}
            /\ Len(history) <= HISTORY_LIMIT
            /\ \A i, j \in DOMAIN history :
                   i < j => StrLess(FileOf(history[j]), FileOf(history[i]))

\* a scan over six session files that all hold the phone, the one of the least
\* name written last: the history has five entries and not that session
C18_Witness ==
    /\ resp.op = "scan_qr"
    /\ resp.success
    /\ \A n \in FileNames : attendance[n].exists /\ Holds(n)
    /\ modified[Len(modified)] \notin Scanned
    /\ Len(resp.body.history) = HISTORY_LIMIT
    /\ session_label(modified[Len(modified)]) \notin HistorySessions

\* the phone cells of the roster files, as the files hold them
RosterCells ==
    UNION {Cells(students[i]) : i \in {k \in DOMAIN students :
                                          \A col \in Range(CSV_COLUMNS) :
                                              col \in Range(students[k].columns)}}

\* C19: the exact resolution of a scanned text finds a student exactly when a
\* roster row holds that text as its phone: a row written with leading zeros
\* is found by the text with the zeros and not by the text without them.
C19_ExactIsStringEquality ==
    (resp.op = "scan_qr" /\ resp.args[1] # << >>) =>
        (resp.message # "Student not found" <=> resp.args[1] \in RosterCells)

\* the saves that returned success since the session file was last removed
RECURSIVE Acknowledged(_)
Acknowledged(workers) ==
    IF workers = {} THEN 0
    ELSE LET w == CHOOSE x \in workers : TRUE
         IN  req[w].acks + Acknowledged(workers \ {w})

\* C20: under any interleaving of the saves, the session file holds as many
\* events as saves have returned success since its last reset.
C20_EventsEqualAcknowledged ==
    \A c \in CourseIds, s \in SessionIds :
        Len(attendance[AttendanceFile(c, s)].rows) = Acknowledged(Workers)

\* C21: after a reset of a session has returned, no event the session file
\* held before the reset is in the file again; the step after the reset may
\* add one new row at the end of the file and nothing else.
C21_ResetEventsStayGone ==
    [][(resp.op = "reset_attendance" /\ resp.success) =>
          LET rows == attendance'[AttendanceFile(resp.args[1], resp.args[2])].rows
          IN  \A i \in DOMAIN rows : i < Len(rows) => rows[i] \notin Range(resp.before.rows)]_vars

\* C22: a reset never ends in the error response, whatever another reset of
\* the same session does between its existence test and its removal.
C22_ResetSucceeds ==
    resp.op = "reset_attendance" => resp.success

\* C23: a save or a reset of one pair (course_id, session_id) leaves the
\* session file of every other pair as it was.
C23_KeysAreIsolated ==
    [][\A c \in KeyCourseIds, s \in KeySessionIds :
          <<c, s>> # <<resp'.args[1], resp'.args[2]>> =>
              attendance'[AttendanceFile(c, s)] = attendance[AttendanceFile(c, s)]]_vars
=============================================================================
